---- MODULE Spec2Model ----
(***************************************************************************)
(* Model of bitget_dashboard.py: the two data operations get_all_tickers   *)
(* (memoized by st.cache_data(ttl=10)) and get_coin_details, the card      *)
(* renderer and one script run of main().                                  *)
(*                                                                         *)
(* Python floats are modelled as exact rationals [n, d] in lowest terms.   *)
(* A JSON field is a tagged record: "num" (a numeric string), "bad" (a     *)
(* string float() rejects) or "absent" (key missing).  A raised Python     *)
(* exception is the tagged value Exc; it is caught where the source        *)
(* catches it and nowhere else.                                            *)
(* Presentation-only columns of the ticker table (High 24h, Low 24h,       *)
(* Volume, the hash-perturbed Change 1h / Change 4h) and the search box    *)
(* are not modelled.                                                       *)
(***************************************************************************)
EXTENDS Integers, Sequences, FiniteSets, TLC

\* ------------------------------------------------------------------------
\* Bounds of the model
\* ------------------------------------------------------------------------
MaxTime == 12
MaxHttpCalls == 3
MaxItems == 2
MaxCandles == 5

\* ------------------------------------------------------------------------
\* Program constants
\* ------------------------------------------------------------------------
TTL == 10
REQUEST_TIMEOUT == 5
NoTimeout == 0
OkCode == "00000"
ErrCode == "40034"
majors == <<"BTC", "ETH", "SOL">>

\* ------------------------------------------------------------------------
\* Rationals standing for Python floats
\* ------------------------------------------------------------------------
Abs(x) == IF x < 0 THEN -x ELSE x

RECURSIVE GCD(_, _)
GCD(a, b) == IF b = 0 THEN a ELSE GCD(b, a % b)

Rat(n, d) ==
    LET g == GCD(Abs(n), Abs(d))
        s == IF d < 0 THEN -1 ELSE 1
    IN  [n |-> (s * n) \div g, d |-> (s * d) \div g]

Zero == [n |-> 0, d |-> 1]
RAdd(a, b) == Rat(a.n * b.d + b.n * a.d, a.d * b.d)
RSub(a, b) == Rat(a.n * b.d - b.n * a.d, a.d * b.d)
RMul(a, b) == Rat(a.n * b.n, a.d * b.d)
RPos(a) == a.n > 0
RNeg(a) == a.n < 0
RLess(a, b) == a.n * b.d < b.n * a.d

\* Tagged results: a value, or a raised exception.
Exc == [ok |-> FALSE, v |-> Zero]
Val(r) == [ok |-> TRUE, v |-> r]

\* Python's true division: ZeroDivisionError on a zero divisor.
RDiv(a, b) == IF b.n = 0 THEN Exc ELSE Val(Rat(a.n * b.d, a.d * b.n))

\* ------------------------------------------------------------------------
\* JSON fields and float()
\* ------------------------------------------------------------------------
JNum(v) == [k |-> "num", v |-> v]
JBad == [k |-> "bad", v |-> 0]
JAbsent == [k |-> "absent", v |-> 0]
\* a candle row with fewer than five positions
JShort == [k |-> "short", v |-> 0]

\* float(item.get(key, 0)): a missing key coerces to 0, a non-numeric
\* string raises ValueError.
FloatGet(f) ==
    IF f.k = "num" THEN Val(Rat(f.v, 1))
    ELSE IF f.k = "absent" THEN Val(Zero)
    ELSE Exc

\* float(item[key]): a missing key raises KeyError (IndexError for a short
\* candle row), a non-numeric string raises ValueError.
FloatIndex(f) == IF f.k = "num" THEN Val(Rat(f.v, 1)) ELSE Exc

\* ------------------------------------------------------------------------
\* Pair identifiers: a sequence of chunks, so that str.replace acts on it
\* ------------------------------------------------------------------------
StripUSDT(s) == SelectSeq(s, LAMBDA c : c # "USDT")

SymAbsent == [k |-> "absent", s |-> <<>>]
SymStr(s) == [k |-> "str", s |-> s]

\* ------------------------------------------------------------------------
\* Upstream responses.  kind: "transport" (requests.get raised, a timeout
\* included), "nojson" (response.json() raised), "notdict" (JSON that is
\* not an object), "json" (a JSON object).  dataK tells the shape of the
\* object's 'data' member; items holds its elements.
\* ------------------------------------------------------------------------
Resp(kind, code, dataK, items) ==
    [kind |-> kind, code |-> code, dataK |-> dataK, items |-> items]

NoResp == Resp("unset", OkCode, "absent", <<>>)
TransportFailure == Resp("transport", OkCode, "absent", <<>>)

SeqsUpTo(S, n) == UNION {[1..m -> S] : m \in 0..n}

\* Non-payload outcomes shared by the four endpoints; an exchange-reported
\* error status comes with no data ('data' null or missing).
FailedResps ==
    {TransportFailure,
     Resp("nojson", OkCode, "absent", <<>>),
     Resp("notdict", OkCode, "absent", <<>>),
     Resp("json", ErrCode, "null", <<>>),
     Resp("json", ErrCode, "absent", <<>>),
     Resp("json", OkCode, "absent", <<>>),
     Resp("json", OkCode, "null", <<>>)}

TickerItem(pair, last, open) == [symbol |-> pair, lastPr |-> last, open |-> open]
BtcUsdt == SymStr(<<"BTC", "USDT">>)
EthUsdt == SymStr(<<"ETH", "USDT">>)
\* three well-formed elements (one without lastPr and open), one with a
\* non-numeric open, one without symbol
TickerItems ==
    {TickerItem(BtcUsdt, JNum(3), JNum(2)),
     TickerItem(EthUsdt, JNum(1), JNum(0)),
     TickerItem(EthUsdt, JAbsent, JAbsent),
     TickerItem(BtcUsdt, JNum(3), JBad),
     TickerItem(SymAbsent, JNum(3), JNum(2))}

AllTickersResps ==
    FailedResps \cup
    {Resp("json", OkCode, "list", s) : s \in SeqsUpTo(TickerItems, MaxItems)}

\* ------------------------------------------------------------------------
\* get_all_tickers: the body of the try block, lines 59-96
\* ------------------------------------------------------------------------
EmptyList == [type |-> "list", rows |-> <<>>]
DataFrame(rows) == [type |-> "DataFrame", rows |-> rows]
Raised == [type |-> "raised", rows |-> <<>>]

\* faulty variant: the guard of line 74 dropped
Change24hNoGuard(last, open_24h) == RDiv(RSub(last, open_24h), open_24h)

\* lines 72-75
Change24hTickers(last, open_24h) ==
    IF RPos(open_24h) THEN RDiv(RSub(last, open_24h), open_24h) ELSE Val(Zero)

\* one iteration of the loop at lines 67-94; Exc when the iteration raises
NormalizeItem(item) ==
    LET last == FloatGet(item.lastPr)
        open_24h == FloatGet(item.open)
    IN  IF ~last.ok \/ ~open_24h.ok \/ item.symbol.k # "str"
        THEN [ok |-> FALSE, rec |-> <<>>]
        ELSE LET change_24h == Change24hTickers(last.v, open_24h.v)
             IN  IF ~change_24h.ok
                 THEN [ok |-> FALSE, rec |-> <<>>]
                 ELSE [ok |-> TRUE,
                       rec |-> <<[Symbol |-> StripUSDT(item.symbol.s),
                                  Price |-> last.v,
                                  Change24h |-> change_24h.v,
                                  FullSymbol |-> item.symbol.s]>>]

\* the loop: the list built so far is lost when an iteration raises
RECURSIVE NormalizeAll(_)
NormalizeAll(items) ==
    IF items = <<>> THEN [ok |-> TRUE, rec |-> <<>>]
    ELSE LET h == NormalizeItem(Head(items))
             t == NormalizeAll(Tail(items))
         IN  IF h.ok /\ t.ok THEN [ok |-> TRUE, rec |-> h.rec \o t.rec]
             ELSE [ok |-> FALSE, rec |-> <<>>]

\* lines 59-96: Raised stands for an exception leaving the try block
TickersTryBody(res) ==
    IF res.kind # "json" THEN Raised
    ELSE IF res.code # OkCode THEN EmptyList
    ELSE IF res.dataK # "list" THEN Raised
    ELSE LET n == NormalizeAll(res.items)
         IN  IF n.ok THEN DataFrame(n.rec) ELSE Raised

\* faulty variant: the handler of lines 97-99 removed
TickersExceptNothing(body) == body

\* lines 97-99: except Exception returns an empty DataFrame
TickersExcept(body) == IF body.type = "raised" THEN DataFrame(<<>>) ELSE body

GetAllTickersCompute(res) == TickersExcept(TickersTryBody(res))

\* ------------------------------------------------------------------------
\* get_coin_details, lines 102-174
\* ------------------------------------------------------------------------
\* symbols the operation is called with: the majors and longer codes
Symbols == {"BTC", "DOGE", "MATIC", "PEOPLE"}

DetailItems ==
    [symbol : {BtcUsdt},
     lastPr : {JNum(0), JNum(3), JAbsent},
     open   : {JNum(0), JNum(2), JAbsent, JBad}]

TickerResps ==
    FailedResps \cup
    {Resp("json", OkCode, "list", s) : s \in SeqsUpTo(DetailItems, 1)}

\* a candle is its close (position 4 of the row); JShort is a row too short
Closes == {JNum(0), JNum(2)}
CandleResps ==
    FailedResps \cup
    {Resp("json", OkCode, "list", s) : s \in SeqsUpTo(Closes, MaxCandles)} \cup
    {Resp("json", OkCode, "list", [i \in 1..m |-> JShort]) : m \in 1..MaxCandles}

\* dataK "nolist": 'data' is an object without 'openInterestList';
\* dataK "list": items are the 'size' members of openInterestList
OiSizes == {JNum(0), JNum(5), JAbsent, JBad}
OiResps ==
    FailedResps \cup
    {Resp("json", OkCode, "nolist", <<>>)} \cup
    {Resp("json", OkCode, "list", s) : s \in SeqsUpTo(OiSizes, 1)}

NoChanges == [c1 |-> Zero, c4 |-> Zero, c24 |-> Zero]

None ==
    [none |-> TRUE, symbol |-> "", price |-> Zero, change_1h |-> Zero,
     change_4h |-> Zero, change_24h |-> Zero, oi_value |-> Zero,
     oi_ath |-> Zero, oi_atl |-> Zero]

\* lines 109-110: current_price = float(ticker_res['data'][0]['lastPr'])
TickerStage(ticker_res) ==
    IF ticker_res.kind # "json" \/ ticker_res.dataK # "list" THEN Exc
    ELSE IF Len(ticker_res.items) = 0 THEN Exc
    ELSE FloatIndex(ticker_res.items[1].lastPr)

\* lines 120-121: Python index i is position i + 1 here
PriceAgo(candles, i, current_price) ==
    IF Len(candles) > i THEN FloatIndex(candles[i + 1]) ELSE Val(current_price)

\* lines 125-129
Change24hDetail(current_price, open) ==
    IF RPos(open) THEN RDiv(RSub(current_price, open), open) ELSE Val(Zero)

\* lines 115-129; ok = FALSE when any statement raises
CandleStage(ticker_res, candle_res, current_price) ==
    IF candle_res.kind # "json" \/ candle_res.dataK # "list"
    THEN [ok |-> FALSE, chg |-> NoChanges]
    ELSE LET candles == candle_res.items
             price_1h_ago == PriceAgo(candles, 1, current_price)
             price_4h_ago == PriceAgo(candles, 4, current_price)
         IN  IF ~price_1h_ago.ok \/ ~price_4h_ago.ok
             THEN [ok |-> FALSE, chg |-> NoChanges]
             ELSE LET change_1h == RDiv(RSub(current_price, price_1h_ago.v),
                                        price_1h_ago.v)
                      change_4h == RDiv(RSub(current_price, price_4h_ago.v),
                                        price_4h_ago.v)
                      open == FloatIndex(ticker_res.items[1].open)
                  IN  IF ~change_1h.ok \/ ~change_4h.ok \/ ~open.ok
                      THEN [ok |-> FALSE, chg |-> NoChanges]
                      ELSE LET change_24h == Change24hDetail(current_price, open.v)
                           IN  IF ~change_24h.ok
                               THEN [ok |-> FALSE, chg |-> NoChanges]
                               ELSE [ok |-> TRUE,
                                     chg |-> [c1 |-> change_1h.v,
                                              c4 |-> change_4h.v,
                                              c24 |-> change_24h.v]]

\* faulty variant: oi_res['data']['openInterestList'][0] indexed without the guards
\* of lines 137 and 139
OiSizeUnguarded(oi_res) ==
    IF oi_res.kind # "json" \/ oi_res.dataK # "list" THEN Exc
    ELSE IF Len(oi_res.items) > 0 THEN FloatIndex(oi_res.items[1])
    ELSE Exc

\* lines 134-140: oi_size, Exc when a statement raises
OiSize(oi_res) ==
    IF oi_res.kind # "json" THEN Exc
    ELSE IF oi_res.dataK # "list" THEN Val(Zero)
    ELSE IF Len(oi_res.items) > 0 THEN FloatIndex(oi_res.items[1])
    ELSE Val(Zero)

\* faulty variant: the ATH multiplier keyed on seed % 3
AthMultiplierMod3(seed) == RAdd(Rat(12, 10), Rat(seed % 3, 10))

\* lines 147-149
AthMultiplier(seed) == RAdd(Rat(12, 10), Rat(seed % 5, 10))
AtlMultiplier(seed) == RAdd(Rat(3, 10), Rat(seed % 3, 10))

\* lines 134-169 (the two illustrative dates are not modelled)
OiStage(sym, oi_res, current_price, chg) ==
    LET oi_size == OiSize(oi_res)
    IN  IF ~oi_size.ok THEN None
        ELSE LET oi_value == RMul(oi_size.v, current_price)
                 seed == Len(sym)
             IN  [none |-> FALSE, symbol |-> sym, price |-> current_price,
                  change_1h |-> chg.c1, change_4h |-> chg.c4,
                  change_24h |-> chg.c24, oi_value |-> oi_value,
                  oi_ath |-> RMul(oi_value, AthMultiplier(seed)),
                  oi_atl |-> RMul(oi_value, AtlMultiplier(seed))]

\* ------------------------------------------------------------------------
\* render_major_coin_card, lines 198-242: what the card shows, or the
\* exception it raises
\* ------------------------------------------------------------------------
NoCard == [shown |-> "none", diff_ath |-> Zero, diff_atl |-> Zero]

RenderMajorCoinCard(data) ==
    IF data.none THEN [shown |-> "warning", diff_ath |-> Zero, diff_atl |-> Zero]
    ELSE LET diff_ath == RDiv(RSub(data.oi_value, data.oi_ath), data.oi_ath)
             diff_atl == RDiv(RSub(data.oi_value, data.oi_atl), data.oi_atl)
         IN  IF ~diff_ath.ok \/ ~diff_atl.ok
             THEN [shown |-> "exception", diff_ath |-> Zero, diff_atl |-> Zero]
             ELSE [shown |-> "card", diff_ath |-> diff_ath.v,
                   diff_atl |-> diff_atl.v]

\* ------------------------------------------------------------------------
\* st.cache_data(ttl=10), line 55: one entry, stamped with its store time
\* ------------------------------------------------------------------------
EmptyCache == [set |-> FALSE, value |-> EmptyList, at |-> 0]

\* faulty variant: an entry that never expires
CacheFreshForever(c, t) == c.set

CacheFresh(c, t) == c.set /\ t - c.at < TTL

\* faulty variant: only a non-empty result is stored
CacheStoreNonEmpty(old, value, t) ==
    IF value.rows = <<>> THEN old
    ELSE [set |-> TRUE, value |-> value, at |-> t]

\* every returned value is stored, a failure's empty result included
CacheStore(old, value, t) == [set |-> TRUE, value |-> value, at |-> t]

\* a network call in flight: endpoint, its timeout (NoTimeout: none), and
\* the time it was issued
NoCall == [ep |-> "none", timeout |-> NoTimeout, at |-> 0]
Call(ep, timeout, t) == [ep |-> ep, timeout |-> timeout, at |-> t]

\* requests.get(url, timeout=5), line 60
TickersCall(t) == Call("tickers", REQUEST_TIMEOUT, t)
\* requests.get(url), lines 109, 115, 134
DetailCall(ep, t) == Call(ep, NoTimeout, t)

\* ------------------------------------------------------------------------
\* State
\* ------------------------------------------------------------------------
VARIABLES
    now,            \* wall clock, seconds
    cache,          \* the st.cache_data entry of get_all_tickers
    httpCalls,      \* upstream all-tickers requests issued so far
    pc,             \* position of the script run
    idx,            \* main's loop index over majors (1-based)
    inflight,       \* the network call being waited for
    symbol,         \* get_coin_details: argument
    ticker_res,     \* get_coin_details: locals
    candle_res,
    oi_res,
    current_price,
    chg,            \* change_1h, change_4h, change_24h
    detail_data,    \* what get_coin_details returned
    data,           \* get_all_tickers: the response of this call
    df,             \* what get_all_tickers returned
    cards,          \* what each major's container shows
    table,          \* what the table section shows
    uncaught,       \* an exception left main
    prevCall,       \* history: the last completed get_all_tickers call,
                    \* kept until the next upstream request
    invalidated     \* history: cache cleared since that call

vars == <<now, cache, httpCalls, pc, idx, inflight, symbol, ticker_res,
          candle_res, oi_res, current_price, chg, detail_data, data, df,
          cards, table, uncaught, prevCall, invalidated>>

detailLocals == <<symbol, ticker_res, candle_res, oi_res, current_price, chg,
                  detail_data>>
tickersState == <<cache, httpCalls, data, df, prevCall, invalidated>>
uiState == <<cards, table, uncaught>>

NoCards == [i \in 1..Len(majors) |-> "none"]
NoPrevCall ==
    [set |-> FALSE, result |-> EmptyList, fetchedAt |-> 0, hit |-> FALSE,
     failed |-> FALSE]

Init ==
    /\ now = 0
    /\ cache = EmptyCache
    /\ httpCalls = 0
    /\ pc = "idle"
    /\ idx = 1
    /\ inflight = NoCall
    /\ symbol = ""
    /\ ticker_res = NoResp
    /\ candle_res = NoResp
    /\ oi_res = NoResp
    /\ current_price = Zero
    /\ chg = NoChanges
    /\ detail_data = None
    /\ data = NoResp
    /\ df = EmptyList
    /\ cards = NoCards
    /\ table = "none"
    /\ uncaught = FALSE
    /\ prevCall = NoPrevCall
    /\ invalidated = FALSE

\* ------------------------------------------------------------------------
\* The clock.  It is read only by the cache lookup, the cache store and the
\* timeout of the all-tickers call, so it advances between calls and while
\* that call is in flight; a tick at any other position commutes with the
\* steps between it and one of these.
\* ------------------------------------------------------------------------
Tick ==
    /\ pc \in {"idle", "t_wait"}
    /\ now < MaxTime
    /\ now' = now + 1
    /\ UNCHANGED <<cache, httpCalls, pc, idx, inflight, symbol, ticker_res,
                   candle_res, oi_res, current_price, chg, detail_data, data,
                   df, cards, table, uncaught, prevCall, invalidated>>

\* ------------------------------------------------------------------------
\* get_coin_details, step by step: one action per network call awaited
\* ------------------------------------------------------------------------
\* entry, lines 104-109: the ticker request is issued
CallCoinDetails(s) ==
    /\ symbol' = s
    /\ ticker_res' = NoResp
    /\ candle_res' = NoResp
    /\ oi_res' = NoResp
    /\ current_price' = Zero
    /\ chg' = NoChanges
    /\ detail_data' = None
    /\ inflight' = DetailCall("ticker", now)
    /\ pc' = "d_ticker"

\* lines 171-174: except Exception returns None
DetailAbort ==
    /\ detail_data' = None
    /\ inflight' = NoCall
    /\ pc' = "d_ret"

\* lines 109-115: the ticker response, one of R; the candle request is issued
DetailTicker(R) ==
    /\ pc = "d_ticker"
    /\ \E r \in R :
         /\ ticker_res' = r
         /\ LET p == TickerStage(r)
            IN  IF p.ok
                THEN /\ current_price' = p.v
                     /\ inflight' = DetailCall("candles", now)
                     /\ pc' = "d_candles"
                     /\ UNCHANGED detail_data
                ELSE /\ DetailAbort
                     /\ UNCHANGED current_price
    /\ UNCHANGED <<now, idx, symbol, candle_res, oi_res, chg>>
    /\ UNCHANGED tickersState
    /\ UNCHANGED uiState

\* lines 115-134: the candle response; the open-interest request is issued
DetailCandles(R) ==
    /\ pc = "d_candles"
    /\ \E r \in R :
         /\ candle_res' = r
         /\ LET c == CandleStage(ticker_res, r, current_price)
            IN  IF c.ok
                THEN /\ chg' = c.chg
                     /\ inflight' = DetailCall("oi", now)
                     /\ pc' = "d_oi"
                     /\ UNCHANGED detail_data
                ELSE /\ DetailAbort
                     /\ UNCHANGED chg
    /\ UNCHANGED <<now, idx, symbol, ticker_res, oi_res, current_price>>
    /\ UNCHANGED tickersState
    /\ UNCHANGED uiState

\* lines 134-174: the open-interest response; the function returns
DetailOi(R) ==
    /\ pc = "d_oi"
    /\ \E r \in R :
         /\ oi_res' = r
         /\ detail_data' = OiStage(symbol, r, current_price, chg)
    /\ inflight' = NoCall
    /\ pc' = "d_ret"
    /\ UNCHANGED <<now, idx, symbol, ticker_res, candle_res, current_price, chg>>
    /\ UNCHANGED tickersState
    /\ UNCHANGED uiState

\* the frame of get_coin_details is gone once its result is consumed
ForgetDetail ==
    /\ symbol' = ""
    /\ ticker_res' = NoResp
    /\ candle_res' = NoResp
    /\ oi_res' = NoResp
    /\ current_price' = Zero
    /\ chg' = NoChanges
    /\ detail_data' = None

\* ------------------------------------------------------------------------
\* get_all_tickers behind st.cache_data, lines 55-99
\* ------------------------------------------------------------------------
Deliverable(c, t) == c.timeout = NoTimeout \/ t < c.at + c.timeout
TimedOut(c, t) == c.timeout # NoTimeout /\ t >= c.at + c.timeout

\* history only: the fetch ended in one of the failures of the spec's
\* taxonomy (transport, decode, exchange-reported status)
ItemMalformed(item) ==
    item.symbol.k # "str" \/ item.lastPr.k = "bad" \/ item.open.k = "bad"
UpstreamFailed(r) ==
    \/ r.kind # "json"
    \/ r.code # OkCode
    \/ r.dataK # "list"
    \/ \E i \in 1..Len(r.items) : ItemMalformed(r.items[i])

\* a fresh entry: the stored value is returned, the function does not run
TickersHit ==
    /\ pc = "tickers"
    /\ CacheFresh(cache, now)
    /\ df' = cache.value
    /\ data' = NoResp
    /\ pc' = "t_ret"
    /\ prevCall' = [set |-> TRUE, result |-> cache.value,
                    fetchedAt |-> prevCall.fetchedAt, hit |-> TRUE,
                    failed |-> prevCall.failed]
    /\ invalidated' = FALSE
    /\ UNCHANGED <<now, cache, httpCalls, idx, inflight>>
    /\ UNCHANGED detailLocals
    /\ UNCHANGED uiState

\* no fresh entry: an expired one is dropped by the lookup, the function runs
\* and issues the request, lines 59-60
TickersMiss ==
    /\ pc = "tickers"
    /\ ~CacheFresh(cache, now)
    /\ httpCalls < MaxHttpCalls
    /\ httpCalls' = httpCalls + 1
    /\ inflight' = TickersCall(now)
    /\ cache' = EmptyCache
    /\ prevCall' = NoPrevCall
    /\ invalidated' = FALSE
    /\ pc' = "t_wait"
    /\ UNCHANGED <<now, idx, data, df>>
    /\ UNCHANGED detailLocals
    /\ UNCHANGED uiState

\* lines 61-99 on response r, then the decorator stores what was returned;
\* an exception leaving the function is not stored and reaches the caller
TickersFinish(r) ==
    LET value == GetAllTickersCompute(r)
    IN  /\ data' = r
        /\ df' = value
        /\ inflight' = NoCall
        /\ IF value.type = "raised"
           THEN /\ uncaught' = TRUE
                /\ pc' = "idle"
                /\ UNCHANGED <<cache, prevCall, invalidated>>
           ELSE /\ cache' = CacheStore(cache, value, now)
                /\ pc' = "t_ret"
                /\ prevCall' = [set |-> TRUE, result |-> value,
                                fetchedAt |-> now, hit |-> FALSE,
                                failed |-> UpstreamFailed(r)]
                /\ invalidated' = FALSE
                /\ UNCHANGED uncaught
        /\ UNCHANGED <<now, httpCalls, idx, cards, table>>
        /\ UNCHANGED detailLocals

TickersResponse(R) ==
    /\ pc = "t_wait"
    /\ Deliverable(inflight, now)
    /\ \E r \in R : TickersFinish(r)

\* timeout=5 elapsed: requests.get raises
TickersTimeout ==
    /\ pc = "t_wait"
    /\ TimedOut(inflight, now)
    /\ TickersFinish(TransportFailure)

\* ------------------------------------------------------------------------
\* main(), lines 249-337
\* ------------------------------------------------------------------------
\* responses the dashboard run is driven with
MainItem(open) == TickerItem(BtcUsdt, JNum(3), open)
MainTickerResps ==
    {TransportFailure} \cup
    {Resp("json", OkCode, "list", <<MainItem(o)>>) :
        o \in {JNum(0), JNum(2)}}
MainCandleResps ==
    {TransportFailure,
     Resp("json", OkCode, "list", <<>>),
     Resp("json", OkCode, "list", [i \in 1..5 |-> JNum(2)])}
MainOiResps ==
    {TransportFailure,
     Resp("json", ErrCode, "null", <<>>),
     Resp("json", OkCode, "list", <<JNum(5)>>)}
MainAllTickersResps ==
    {TransportFailure, Resp("json", ErrCode, "null", <<>>)} \cup
    {Resp("json", OkCode, "list", <<MainItem(o)>>) :
        o \in {JNum(0), JNum(2), JAbsent}}

StartRun ==
    /\ pc' = "majors"
    /\ idx' = 1
    /\ cards' = NoCards
    /\ table' = "none"
    /\ uncaught' = FALSE
    /\ data' = NoResp
    /\ df' = EmptyList
    /\ UNCHANGED <<now, inflight, httpCalls, prevCall>>
    /\ UNCHANGED detailLocals

\* a rerun not caused by the refresh button
Rerun ==
    /\ pc = "idle"
    /\ StartRun
    /\ UNCHANGED <<cache, invalidated>>

\* lines 253-255: st.cache_data.clear(), then st.rerun()
ClickRefresh ==
    /\ pc = "idle"
    /\ cache' = EmptyCache
    /\ invalidated' = TRUE
    /\ StartRun

\* line 267
MainCallDetails ==
    /\ pc = "majors"
    /\ CallCoinDetails(majors[idx])
    /\ UNCHANGED <<now, idx>>
    /\ UNCHANGED tickersState
    /\ UNCHANGED uiState

\* line 268: the card of the current major; an exception raised by the
\* renderer leaves main and ends the run.  After the last major, line 276
\* calls get_all_tickers.
MainRenderCard ==
    /\ pc = "d_ret"
    /\ LET card == RenderMajorCoinCard(detail_data)
       IN  /\ cards' = [cards EXCEPT ![idx] = card.shown]
           /\ IF card.shown = "exception"
              THEN /\ uncaught' = TRUE
                   /\ pc' = "idle"
                   /\ UNCHANGED idx
              ELSE /\ UNCHANGED uncaught
                   /\ IF idx < Len(majors)
                      THEN idx' = idx + 1 /\ pc' = "majors"
                      ELSE idx' = idx /\ pc' = "tickers"
    /\ ForgetDetail
    /\ UNCHANGED <<now, inflight, table>>
    /\ UNCHANGED tickersState

\* lines 278-337: df.empty raises AttributeError on a list
MainRenderTable ==
    /\ pc = "t_ret"
    /\ IF df.type = "list"
       THEN uncaught' = TRUE /\ UNCHANGED table
       ELSE /\ UNCHANGED uncaught
            /\ table' = IF df.rows = <<>> THEN "error" ELSE "dataframe"
    /\ pc' = "idle"
    /\ data' = NoResp
    /\ df' = EmptyList
    /\ UNCHANGED <<now, cache, httpCalls, idx, inflight, cards, prevCall,
                   invalidated>>
    /\ UNCHANGED detailLocals

Next ==
    \/ Tick
    \/ Rerun
    \/ ClickRefresh
    \/ MainCallDetails
    \/ DetailTicker(MainTickerResps)
    \/ DetailCandles(MainCandleResps)
    \/ DetailOi(MainOiResps)
    \/ MainRenderCard
    \/ TickersHit
    \/ TickersMiss
    \/ TickersResponse(MainAllTickersResps)
    \/ TickersTimeout
    \/ MainRenderTable

Spec == Init /\ [][Next]_vars

\* ------------------------------------------------------------------------
\* get_all_tickers called directly: any sequence of calls, clock advances
\* and cache clears, with every response of AllTickersResps
\* ------------------------------------------------------------------------
GetAllTickersCall ==
    /\ pc = "idle"
    /\ pc' = "tickers"
    /\ data' = NoResp
    /\ df' = EmptyList
    /\ uncaught' = FALSE
    /\ UNCHANGED <<now, cache, httpCalls, idx, inflight, cards, table,
                   prevCall, invalidated>>
    /\ UNCHANGED detailLocals

GetAllTickersReturn ==
    /\ pc = "t_ret"
    /\ pc' = "idle"
    /\ data' = NoResp
    /\ df' = EmptyList
    /\ UNCHANGED <<now, cache, httpCalls, idx, inflight, prevCall,
                   invalidated>>
    /\ UNCHANGED detailLocals
    /\ UNCHANGED uiState

\* st.cache_data.clear(), line 254
CacheClear ==
    /\ pc = "idle"
    /\ cache' = EmptyCache
    /\ invalidated' = TRUE
    /\ UNCHANGED <<now, httpCalls, pc, idx, inflight, data, df, prevCall>>
    /\ UNCHANGED detailLocals
    /\ UNCHANGED uiState

CacheNext ==
    \/ Tick
    \/ GetAllTickersCall
    \/ CacheClear
    \/ TickersHit
    \/ TickersMiss
    \/ TickersResponse(AllTickersResps)
    \/ TickersTimeout
    \/ GetAllTickersReturn

CacheSpec == Init /\ [][CacheNext]_vars

\* ------------------------------------------------------------------------
\* get_coin_details called directly with every symbol of Symbols and every
\* response of TickerResps, CandleResps, OiResps
\* ------------------------------------------------------------------------
GetCoinDetailsCall ==
    /\ pc = "idle"
    /\ \E s \in Symbols : CallCoinDetails(s)
    /\ UNCHANGED <<now, idx>>
    /\ UNCHANGED tickersState
    /\ UNCHANGED uiState

GetCoinDetailsReturn ==
    /\ pc = "d_ret"
    /\ pc' = "idle"
    /\ ForgetDetail
    /\ UNCHANGED <<now, idx, inflight>>
    /\ UNCHANGED tickersState
    /\ UNCHANGED uiState

DetailNext ==
    \/ GetCoinDetailsCall
    \/ DetailTicker(TickerResps)
    \/ DetailCandles(CandleResps)
    \/ DetailOi(OiResps)
    \/ GetCoinDetailsReturn

DetailSpec == Init /\ [][DetailNext]_vars

\* ========================================================================
\* Properties
\* ========================================================================
\* c is the change of cur against the reference ref: c = (cur - ref) / ref
IsChange(c, cur, ref) == RMul(c, ref) = RSub(cur, ref)
Num(f) == Rat(f.v, 1)

\* C1 (CacheSpec): a call made with no TTL expiry and no cache clear since
\* the previous call's fetch issues no upstream request and returns that
\* call's result; any other call issues exactly one new upstream request.
C1_CacheContract ==
    [][(pc = "tickers" /\ pc' # "tickers") =>
          IF prevCall.set /\ ~invalidated /\ now < prevCall.fetchedAt + TTL
          THEN httpCalls' = httpCalls /\ df' = prevCall.result /\ pc' = "t_ret"
          ELSE httpCalls' = httpCalls + 1 /\ pc' = "t_wait"]_vars

\* a second call answered from the cache: one upstream request in all
C1_Witness ==
    pc = "t_ret" /\ prevCall.hit /\ httpCalls = 1 /\ df.rows # <<>> /\ now > 0

\* C2 (CacheSpec): get_all_tickers never raises; on every upstream failure
\* its result is empty; a non-empty result has one record per payload
\* element, in payload order.
C2_EmptyOnFailure ==
    data.kind # "unset" =>
        /\ df.type # "raised"
        /\ ~uncaught
        /\ UpstreamFailed(data) => df.rows = <<>>
        /\ ~UpstreamFailed(data) => Len(df.rows) = Len(data.items)
        /\ df.rows # <<>> =>
              /\ Len(df.rows) = Len(data.items)
              /\ \A i \in 1..Len(df.rows) :
                    /\ df.rows[i].FullSymbol = data.items[i].symbol.s
                    /\ df.rows[i].Price = Num(data.items[i].lastPr)

\* a payload whose first element is well-formed and whose second is not
C2_Witness ==
    /\ pc = "t_ret"
    /\ Len(data.items) = 2
    /\ ~ItemMalformed(data.items[1])
    /\ ItemMalformed(data.items[2])
    /\ df.rows = <<>>

\* a sub-fetch failed: transport, undecodable body, or an exchange-reported
\* non-success status
FetchFailed(r) ==
    \/ r.kind \in {"transport", "nojson", "notdict"}
    \/ r.kind = "json" /\ r.code # OkCode

\* C3 (DetailSpec): if any of the three sub-fetches of get_coin_details
\* fails, the operation returns None.
C3_AllOrNothing ==
    pc = "d_ret" =>
        ((FetchFailed(ticker_res) \/ FetchFailed(candle_res)
              \/ FetchFailed(oi_res)) => detail_data.none)

\* C4 (Spec): no combination of upstream outcomes makes a run of main()
\* end in an uncaught exception.
C4_NoFatalError == ~uncaught

\* C5 (Spec): every network call in flight carries a timeout.
C5_EveryCallHasTimeout ==
    inflight.ep # "none" => inflight.timeout # NoTimeout

\* C6 (Spec): in every record of get_all_tickers and of get_coin_details,
\* change24h = (last - open24h) / open24h when open24h > 0 and 0 when
\* open24h is 0 or absent, and no value of open24h makes the computation
\* raise (the record is produced).
C6_Change24h ==
    /\ (pc = "t_ret" /\ data.kind = "json" /\ ~UpstreamFailed(data)) =>
          \A i \in 1..Len(data.items) :
             /\ i <= Len(df.rows)
             /\ LET o == data.items[i].open
                    row == df.rows[i]
                IN  /\ (o.k = "num" /\ o.v > 0) =>
                           IsChange(row.Change24h, row.Price, Num(o))
                    /\ (o.k = "absent" \/ o.v = 0) => row.Change24h = Zero
    /\ (pc = "d_ret" /\ ~detail_data.none) =>
          LET o == ticker_res.items[1].open
          IN  /\ o.v > 0 =>
                     IsChange(detail_data.change_24h, detail_data.price, Num(o))
              /\ o.v = 0 => detail_data.change_24h = Zero
    /\ (pc = "d_ret" /\ candle_res.kind = "json" /\ candle_res.dataK = "list"
           /\ ticker_res.items[1].open.k = "num") => oi_res.kind # "unset"

\* the table holds a record with open24h = 0 after a major's card showed
C6_Witness ==
    /\ pc = "t_ret"
    /\ data.kind = "json"
    /\ Len(df.rows) = 1
    /\ data.items[1].open = JNum(0)
    /\ df.rows[1].Change24h = Zero
    /\ cards[1] = "card"

\* the candle stage of get_coin_details ran to its end
CandleStageDone == pc = "d_oi" \/ oi_res.kind # "unset"

\* C7 (DetailSpec): for every current price and every well-formed candle
\* sequence, a missing reference candle is replaced by the current price
\* and the change resolves to 0 without the operation failing; otherwise
\* the change is taken against close[1] (resp. close[4]).
C7_CandleFallback ==
    (/\ pc \in {"d_oi", "d_ret"}
     /\ candle_res.kind = "json" /\ candle_res.dataK = "list"
     /\ \A i \in 1..Len(candle_res.items) : candle_res.items[i].k = "num"
     /\ ticker_res.items[1].open.k = "num") =>
        LET candles == candle_res.items
            n == Len(candles)
        IN  /\ ((n < 2 \/ candles[2].v # 0) /\ (n < 5 \/ candles[5].v # 0)) =>
                   CandleStageDone
            /\ n < 2 => chg.c1 = Zero
            /\ n < 5 => chg.c4 = Zero
            /\ (CandleStageDone /\ n >= 2) =>
                   IsChange(chg.c1, current_price, Num(candles[2]))
            /\ (CandleStageDone /\ n >= 5) =>
                   IsChange(chg.c4, current_price, Num(candles[5]))

OiFormulas(d) ==
    /\ RMul(d.oi_ath, Rat(10, 1)) =
           RMul(d.oi_value, Rat(12 + (Len(d.symbol) % 5), 1))
    /\ RMul(d.oi_atl, Rat(10, 1)) =
           RMul(d.oi_value, Rat(3 + (Len(d.symbol) % 3), 1))

DeltasSigned(d) ==
    LET card == RenderMajorCoinCard(d)
    IN  card.shown = "card" /\ RNeg(card.diff_ath) /\ RPos(card.diff_atl)

\* C8 as stated (DetailSpec): oi_ath and oi_atl follow the multiplier
\* formulas, oi_ath always exceeds oi_value and oi_atl is always below it,
\* and the rendered deltas are always negative resp. positive.
C8_AlwaysBracketed ==
    (pc = "d_ret" /\ ~detail_data.none) =>
        /\ OiFormulas(detail_data)
        /\ RLess(detail_data.oi_value, detail_data.oi_ath)
        /\ RLess(detail_data.oi_atl, detail_data.oi_value)
        /\ DeltasSigned(detail_data)

\* C8 amended (DetailSpec): the formulas hold for every symbol and value;
\* for oi_value > 0, oi_ath exceeds oi_value, oi_atl is below it and the
\* card shows a negative vs-ATH and a positive vs-ATL delta; for
\* oi_value = 0 both estimates are 0.
C8_BracketedWhenPositive ==
    (pc = "d_ret" /\ ~detail_data.none) =>
        /\ OiFormulas(detail_data)
        /\ RPos(detail_data.oi_value) =>
              /\ RLess(detail_data.oi_value, detail_data.oi_ath)
              /\ RLess(detail_data.oi_atl, detail_data.oi_value)
              /\ DeltasSigned(detail_data)
        /\ detail_data.oi_value = Zero =>
              detail_data.oi_ath = Zero /\ detail_data.oi_atl = Zero

C8_Witness ==
    /\ pc = "d_ret"
    /\ ~detail_data.none
    /\ symbol = "DOGE"
    /\ detail_data.oi_value = Rat(15, 1)
    /\ detail_data.oi_ath = Rat(24, 1)
    /\ detail_data.oi_atl = Rat(6, 1)

\* the open-interest response is a JSON object of a successful request
\* without the nested list, or with an empty one
OiListMissing(r) ==
    /\ r.kind = "json"
    /\ r.code = OkCode
    /\ r.dataK \in {"absent", "null", "nolist"} \/ (r.dataK = "list" /\ r.items = <<>>)

\* C9 (DetailSpec): when the ticker and candle fetches went through and
\* the open-interest response lacks the list or the list is empty, a
\* record is returned with oi_value = 0 and the price and changes computed
\* from the ticker and the candles.
C9_MissingOiIsZero ==
    (pc = "d_ret" /\ OiListMissing(oi_res)) =>
        /\ ~detail_data.none
        /\ detail_data.oi_value = Zero
        /\ detail_data.price = Num(ticker_res.items[1].lastPr)
        /\ LET candles == candle_res.items
               ref1 == IF Len(candles) > 1 THEN Num(candles[2])
                       ELSE detail_data.price
               ref4 == IF Len(candles) > 4 THEN Num(candles[5])
                       ELSE detail_data.price
           IN  /\ IsChange(detail_data.change_1h, detail_data.price, ref1)
               /\ IsChange(detail_data.change_4h, detail_data.price, ref4)

C9_Witness ==
    /\ pc = "d_ret"
    /\ oi_res = Resp("json", OkCode, "nolist", <<>>)
    /\ ~detail_data.none
    /\ detail_data.price = Rat(3, 1)
    /\ detail_data.change_1h = Rat(1, 2)
    /\ detail_data.oi_value = Zero

\* C10 (CacheSpec): after a failed fetch, a call made before TTL expiry
\* and without a cache clear returns the same empty result and issues no
\* upstream request.
C10_FailureMemoized ==
    [][(/\ pc = "tickers" /\ pc' # "tickers"
        /\ prevCall.set /\ prevCall.failed /\ ~invalidated
        /\ now < prevCall.fetchedAt + TTL) =>
          (/\ httpCalls' = httpCalls
           /\ pc' = "t_ret"
           /\ df'.rows = <<>>
           /\ df' = prevCall.result)]_vars

\* a call answered with the memoized failure result
C10_Witness ==
    /\ pc = "t_ret"
    /\ prevCall.hit
    /\ prevCall.failed
    /\ df.rows = <<>>
    /\ now > prevCall.fetchedAt

====
